---- MODULE Spec2Model ----
(***************************************************************************)
(* Battleships (run.py): the Board class, the placement helpers and the    *)
(* new_game / play_game control flow, as a state machine.                  *)
(*                                                                         *)
(* Two specifications are given over the same variables:                   *)
(*   Spec       the program as run: new_game, manual and random placement, *)
(*              then play_game round by round;                             *)
(*   SpecBoard  one Board object driven by arbitrary sequences of calls of *)
(*              its methods add_ship, process_guess and display, for the   *)
(*              statements made about every board and every coordinate.    *)
(*                                                                         *)
(* Scaling.  new_game reads board_size in 5..10 and num_ships in           *)
(* 1..board_size-1 (run.py:243-245).  Lists of guesses on a 25-cell board  *)
(* are out of reach of explicit-state checking, so the model plays on a    *)
(* BoardSize x BoardSize board with 1..MaxShips ships per side; MaxShips   *)
(* stays below the number of cells.                                        *)
(***************************************************************************)
EXTENDS Integers, Sequences, FiniteSets, TLC

VARIABLES
    player_board,     \* run.py:267  Board(board_size, num_ships, name, "player")
    computer_board,   \* run.py:266  Board(board_size, num_ships, "Computer", "computer")
    scores,           \* run.py:5    module-level dict
    pc,               \* position in new_game / play_game
    round_num,        \* run.py:137
    player_x, player_y, player_result,        \* run.py:150-152
    computer_x, computer_y, computer_result,  \* run.py:164-166
    out,              \* what the last step printed
    target,           \* SpecBoard: which board object is under test
    call,             \* SpecBoard: the last method call and what it returned
    nCalls            \* SpecBoard: number of method calls made

vars == <<player_board, computer_board, scores, pc, round_num,
          player_x, player_y, player_result,
          computer_x, computer_y, computer_result,
          out, target, call, nCalls>>

turnVars == <<player_x, player_y, player_result,
              computer_x, computer_y, computer_result>>

apiVars == <<target, call, nCalls>>

----------------------------------------------------------------------------
(* Bounds of the model *)

BoardSize == 2

MaxShips == 2

MaxRounds == 5

MaxCalls == 4

----------------------------------------------------------------------------
(* Lists *)

Range(s) == {s[i] : i \in 1..Len(s)}

\* list.remove(e): drops the first occurrence of e
RECURSIVE Remove(_, _)
Remove(s, e) ==
    IF s = <<>> THEN <<>>
    ELSE IF Head(s) = e THEN Tail(s)
    ELSE <<Head(s)>> \o Remove(Tail(s), e)

----------------------------------------------------------------------------
(* class Board *)

EmptyGrid(n) == [x \in 0..(n - 1) |-> [y \in 0..(n - 1) |-> "."]]

Board(board_size, num_ships, board_type) ==
    [board_size |-> board_size,
     board      |-> EmptyGrid(board_size),
     num_ships  |-> num_ships,
     type       |-> board_type,
     guesses    |-> <<>>,
     ships      |-> <<>>]

InBounds(x, y, b) ==
    /\ 0 <= x /\ x < b.board_size
    /\ 0 <= y /\ y < b.board_size

\* Python list indexing: an index i of a list of n elements is accepted when
\* -n <= i < n, and a negative one counts from the end
IndexOk(i, n) == -n <= i /\ i < n

PyIndex(i, n) == IF i < 0 THEN i + n ELSE i

\* whether self.board[x][y] = v succeeds (it raises IndexError otherwise)
CellOk(b, x, y) == IndexOk(x, b.board_size) /\ IndexOk(y, b.board_size)

\* self.board[x][y] = v
SetCell(b, x, y, v) ==
    [b EXCEPT !.board[PyIndex(x, b.board_size)][PyIndex(y, b.board_size)] = v]

\* display with the hide_ships test lost: the ship marker is always masked
display_always_hides(b, hide_ships) ==
    [x \in 0..(b.board_size - 1) |->
        [y \in 0..(b.board_size - 1) |->
            IF b.board[x][y] = "@" THEN "." ELSE b.board[x][y]]]

\* Board.display: the rows it prints
display(b, hide_ships) ==
    [x \in 0..(b.board_size - 1) |->
        [y \in 0..(b.board_size - 1) |->
            IF hide_ships /\ b.board[x][y] = "@" THEN "." ELSE b.board[x][y]]]

\* process_guess marking board[y][x] for board[x][y]
process_guess_marks_transposed(b, x, y) ==
    IF <<x, y>> \in Range(b.guesses)
    THEN [b |-> b, result |-> "Repeat"]
    ELSE LET g == [b EXCEPT !.guesses = Append(@, <<x, y>>)]
         IN  IF ~CellOk(b, x, y)
             THEN [b |-> g, result |-> "IndexError"]
             ELSE IF <<x, y>> \in Range(b.ships)
             THEN [b |-> SetCell(g, y, x, "X"), result |-> "Hit"]
             ELSE [b |-> SetCell(g, y, x, "O"), result |-> "Miss"]

\* process_guess with the membership test on guesses lost
process_guess_no_repeat(b, x, y) ==
    LET g == [b EXCEPT !.guesses = Append(@, <<x, y>>)]
    IN  IF ~CellOk(b, x, y)
        THEN [b |-> g, result |-> "IndexError"]
        ELSE IF <<x, y>> \in Range(b.ships)
        THEN [b |-> SetCell(g, x, y, "X"), result |-> "Hit"]
        ELSE [b |-> SetCell(g, x, y, "O"), result |-> "Miss"]

\* Board.process_guess: the board after the call, and the value returned
\* ("IndexError" when the cell assignment raises)
process_guess(b, x, y) ==
    IF <<x, y>> \in Range(b.guesses)
    THEN [b |-> b, result |-> "Repeat"]
    ELSE LET g == [b EXCEPT !.guesses = Append(@, <<x, y>>)]
         IN  IF ~CellOk(b, x, y)
             THEN [b |-> g, result |-> "IndexError"]
             ELSE IF <<x, y>> \in Range(b.ships)
             THEN [b |-> SetCell(g, x, y, "X"), result |-> "Hit"]
             ELSE [b |-> SetCell(g, x, y, "O"), result |-> "Miss"]

\* add_ship with the duplicate test lost
add_ship_no_duplicate_test(b, x, y) ==
    IF Len(b.ships) >= b.num_ships
    THEN [b |-> b, err |-> "Cannot add more ships!"]
    ELSE LET s == [b EXCEPT !.ships = Append(@, <<x, y>>)]
         IN  IF b.type # "player"
             THEN [b |-> s, err |-> "none"]
             ELSE IF ~CellOk(b, x, y)
             THEN [b |-> s, err |-> "IndexError"]
             ELSE [b |-> SetCell(s, x, y, "@"), err |-> "none"]

\* add_ship with the capacity test off by one (> for >=)
add_ship_capacity_off_by_one(b, x, y) ==
    IF Len(b.ships) > b.num_ships
    THEN [b |-> b, err |-> "Cannot add more ships!"]
    ELSE IF <<x, y>> \in Range(b.ships)
    THEN [b |-> b, err |-> "Ship already placed at this location!"]
    ELSE LET s == [b EXCEPT !.ships = Append(@, <<x, y>>)]
         IN  IF b.type # "player"
             THEN [b |-> s, err |-> "none"]
             ELSE IF ~CellOk(b, x, y)
             THEN [b |-> s, err |-> "IndexError"]
             ELSE [b |-> SetCell(s, x, y, "@"), err |-> "none"]

\* add_ship with the board-type test lost: every board gets the ship marker
add_ship_marks_every_board(b, x, y) ==
    IF Len(b.ships) >= b.num_ships
    THEN [b |-> b, err |-> "Cannot add more ships!"]
    ELSE IF <<x, y>> \in Range(b.ships)
    THEN [b |-> b, err |-> "Ship already placed at this location!"]
    ELSE LET s == [b EXCEPT !.ships = Append(@, <<x, y>>)]
         IN  IF ~CellOk(b, x, y)
             THEN [b |-> s, err |-> "IndexError"]
             ELSE [b |-> SetCell(s, x, y, "@"), err |-> "none"]

\* Board.add_ship: the board after the call, and the exception raised if any
add_ship(b, x, y) ==
    IF Len(b.ships) >= b.num_ships
    THEN [b |-> b, err |-> "Cannot add more ships!"]
    ELSE IF <<x, y>> \in Range(b.ships)
    THEN [b |-> b, err |-> "Ship already placed at this location!"]
    ELSE LET s == [b EXCEPT !.ships = Append(@, <<x, y>>)]
         IN  IF b.type # "player"
             THEN [b |-> s, err |-> "none"]
             ELSE IF ~CellOk(b, x, y)
             THEN [b |-> s, err |-> "IndexError"]
             ELSE [b |-> SetCell(s, x, y, "@"), err |-> "none"]

----------------------------------------------------------------------------
(* Helper functions *)

\* random_point: the values randint(0, board_size - 1) can return
random_point(board_size) == 0..(board_size - 1)

\* valid_coordinates with the upper bound on x lost
valid_coordinates_no_upper_bound(x, y, b) ==
    /\ 0 <= x
    /\ 0 <= y /\ y < b.board_size
    /\ <<x, y>> \notin Range(b.ships)

\* valid_coordinates with the lower bound on x lost
valid_coordinates_no_lower_bound(x, y, b) ==
    /\ x < b.board_size
    /\ 0 <= y /\ y < b.board_size
    /\ <<x, y>> \notin Range(b.ships)

\* valid_coordinates with the occupancy test lost
valid_coordinates_no_ship_test(x, y, b) ==
    /\ 0 <= x /\ x < b.board_size
    /\ 0 <= y /\ y < b.board_size

\* valid_coordinates (run.py:66-72)
valid_coordinates(x, y, b) ==
    /\ 0 <= x /\ x < b.board_size
    /\ 0 <= y /\ y < b.board_size
    /\ <<x, y>> \notin Range(b.ships)

\* what the player can type: integers, some of them off the board
InputPoint(board_size) == (-1)..board_size

Ev(e, a) == [ev |-> e, arg |-> a]

Printed(e) == \E i \in 1..Len(out) : out[i].ev = e

----------------------------------------------------------------------------
(* Spec: the program *)

Init ==
    /\ player_board = Board(0, 0, "player")
    /\ computer_board = Board(0, 0, "computer")
    /\ scores = [computer |-> 0, player |-> 0]
    /\ pc = "new_game"
    /\ round_num = 0
    /\ player_x = -1 /\ player_y = -1 /\ player_result = "none"
    /\ computer_x = -1 /\ computer_y = -1 /\ computer_result = "none"
    /\ out = <<>>
    /\ target = "none"
    /\ call = [op |-> "none", x |-> -1, y |-> -1, res |-> "none"]
    /\ nCalls = 0

\* new_game, up to the construction of the two boards
NewGame ==
    /\ pc = "new_game"
    /\ \E board_size \in {BoardSize}, num_ships \in 1..MaxShips :
        /\ num_ships < board_size * board_size
        /\ computer_board' = Board(board_size, num_ships, "computer")
        /\ player_board' = Board(board_size, num_ships, "player")
    /\ scores' = [computer |-> 0, player |-> 0]
    /\ out' = <<Ev("welcome", 0)>>
    /\ pc' = "populate_board_player"
    /\ UNCHANGED <<round_num, turnVars, apiVars>>

\* populate_board_player: one pass of the inner input loop (run.py:87-104);
\* a ValueError of add_ship is caught at run.py:103, an IndexError is not
PlacePlayerShip ==
    /\ pc = "populate_board_player"
    /\ \E x \in InputPoint(player_board.board_size),
          y \in InputPoint(player_board.board_size) :
        IF valid_coordinates(x, y, player_board)
        THEN LET r == add_ship(player_board, x, y)
             IN  /\ player_board' = r.b
                 /\ out' = IF r.err = "none"
                           THEN <<Ev("ship_placed", <<x, y>>),
                                  Ev("display", display(r.b, FALSE))>>
                           ELSE IF r.err = "IndexError"
                           THEN <<Ev("index_error", <<x, y>>)>>
                           ELSE <<Ev("invalid_input", <<x, y>>)>>
                 /\ pc' = IF r.err = "IndexError" THEN "crashed"
                          ELSE IF Len(r.b.ships) < r.b.num_ships
                          THEN "populate_board_player" ELSE "populate_board"
        ELSE /\ player_board' = player_board
             /\ out' = <<Ev("invalid_coordinates", <<x, y>>)>>
             /\ pc' = "populate_board_player"
    /\ UNCHANGED <<computer_board, scores, round_num, turnVars, apiVars>>

\* populate_board: one pass of the sampling loop (run.py:77-80);
\* on leaving the loop play_game is entered and sets round_num (run.py:137)
PlaceComputerShip ==
    /\ pc = "populate_board"
    /\ \E x \in random_point(computer_board.board_size),
          y \in random_point(computer_board.board_size) :
        IF valid_coordinates(x, y, computer_board)
        THEN LET r == add_ship(computer_board, x, y)
             IN  /\ computer_board' = r.b
                 /\ pc' = IF r.err # "none" THEN "crashed"
                          ELSE IF Len(r.b.ships) < r.b.num_ships
                          THEN "populate_board" ELSE "play_game"
        ELSE /\ computer_board' = computer_board
             /\ pc' = "populate_board"
    /\ round_num' = 0
    /\ out' = <<>>
    /\ UNCHANGED <<player_board, scores, turnVars, apiVars>>

----------------------------------------------------------------------------
(* play_game *)

\* the loop test and the round header (run.py:139-148)
StartRound ==
    /\ pc = "play_game"
    /\ round_num < MaxRounds
    /\ IF player_board.ships # <<>> /\ computer_board.ships # <<>>
       THEN /\ round_num' = round_num + 1
            /\ out' = <<Ev("round", round_num + 1),
                        Ev("display", display(player_board, FALSE)),
                        Ev("display_hidden", display(computer_board, TRUE))>>
            /\ pc' = "player_turn"
       ELSE /\ round_num' = round_num
            /\ out' = <<>>
            /\ pc' = "final_scores"
    /\ UNCHANGED <<player_board, computer_board, scores, turnVars, apiVars>>

\* get_player_guess accepts only an in-bounds pair (run.py:113)
PlayerGuessAccepted(x, y, b) ==
    /\ 0 <= x /\ x < b.board_size
    /\ 0 <= y /\ y < b.board_size

\* the retry loop left after any guess
PlayerLoopExits_always(result) == TRUE

\* the test that leaves the player's retry loop (run.py:155)
PlayerLoopExits(result) == result # "Repeat"

\* the hit ship left in the list
ResolveHit_no_remove(b, x, y, result) == b

\* the body of `if result == "Hit"`: ships.remove on the target board
\* (run.py:159-160 and 168-169)
ResolveHit(b, x, y, result) ==
    IF result = "Hit" THEN [b EXCEPT !.ships = Remove(@, <<x, y>>)] ELSE b

\* the score incremented whatever the result
ScoreHit_any_result(sc, side, result) == [sc EXCEPT ![side] = @ + 1]

\* the hit credited to the computer whoever guessed
ScoreHit_wrong_side(sc, side, result) ==
    IF result = "Hit" THEN [sc EXCEPT !["computer"] = @ + 1] ELSE sc

\* the body of `if result == "Hit"`: the score of the guessing side
\* (run.py:161 and 170)
ScoreHit(sc, side, result) ==
    IF result = "Hit" THEN [sc EXCEPT ![side] = @ + 1] ELSE sc

\* the player's turn: one pass of the retry loop, and on leaving it the
\* resolution of the guess (run.py:149-161)
PlayerTurn ==
    /\ pc = "player_turn"
    /\ \E x \in InputPoint(computer_board.board_size),
          y \in InputPoint(computer_board.board_size) :
        IF ~PlayerGuessAccepted(x, y, computer_board)
        THEN /\ out' = <<Ev("out_of_range", 0)>>
             /\ pc' = "player_turn"
             /\ UNCHANGED <<computer_board, scores,
                            player_x, player_y, player_result>>
        ELSE LET r == process_guess(computer_board, x, y)
             IN  /\ player_x' = x
                 /\ player_y' = y
                 /\ player_result' = r.result
                 /\ IF PlayerLoopExits(r.result)
                    THEN /\ computer_board' = ResolveHit(r.b, x, y, r.result)
                         /\ scores' = ScoreHit(scores, "player", r.result)
                         /\ out' = <<Ev("player_guess", r.result)>>
                         /\ pc' = IF r.result = "IndexError" THEN "crashed"
                                  ELSE "computer_turn"
                    ELSE /\ computer_board' = r.b
                         /\ scores' = scores
                         /\ out' = <<Ev("repeat", 0),
                                     Ev("try_again", 0)>>
                         /\ pc' = "player_turn"
    /\ UNCHANGED <<player_board, round_num,
                   computer_x, computer_y, computer_result, apiVars>>

\* get_computer_guess returning its first draw, whatever it is
get_computer_guess_any(b) ==
    random_point(b.board_size) \X random_point(b.board_size)

\* get_computer_guess: the pairs it can return (run.py:123-126)
get_computer_guess(b) ==
    {p \in random_point(b.board_size) \X random_point(b.board_size) :
        p \notin Range(b.guesses)}

\* the computer's turn: one draw of get_computer_guess, and once a draw is
\* returned the guess and its resolution (run.py:164-170)
ComputerTurn ==
    /\ pc = "computer_turn"
    /\ \E x \in random_point(player_board.board_size),
          y \in random_point(player_board.board_size) :
        IF <<x, y>> \in get_computer_guess(player_board)
        THEN LET r == process_guess(player_board, x, y)
             IN  /\ computer_x' = x
                 /\ computer_y' = y
                 /\ computer_result' = r.result
                 /\ player_board' = ResolveHit(r.b, x, y, r.result)
                 /\ scores' = ScoreHit(scores, "computer", r.result)
                 /\ out' = IF r.result = "Repeat"
                           THEN <<Ev("repeat", 0)>> ELSE <<>>
                 /\ pc' = IF r.result = "IndexError" THEN "crashed"
                          ELSE "round_end"
        ELSE /\ out' = <<>>
             /\ pc' = "computer_turn"
             /\ UNCHANGED <<player_board, scores,
                            computer_x, computer_y, computer_result>>
    /\ UNCHANGED <<computer_board, round_num,
                   player_x, player_y, player_result, apiVars>>

\* the end-of-game test with two independent tests and no break between them
RoundEnd_announces_both ==
    /\ pc = "round_end"
    /\ LET head == <<Ev("summary", <<player_result, computer_result>>),
                     Ev("round_scores", scores)>>
           win  == IF computer_board.ships = <<>>
                   THEN <<Ev("win", 0)>> ELSE <<>>
           lose == IF player_board.ships = <<>>
                   THEN <<Ev("lose", 0)>> ELSE <<>>
       IN  /\ out' = head \o win \o lose
           /\ pc' = IF win \o lose # <<>> THEN "final_scores" ELSE "continue"
    /\ UNCHANGED <<player_board, computer_board, scores, round_num,
                   turnVars, apiVars>>

\* the round summary, the scores and the end-of-game test (run.py:172-193)
RoundEnd ==
    /\ pc = "round_end"
    /\ LET head == <<Ev("summary", <<player_result, computer_result>>),
                     Ev("round_scores", scores)>>
       IN  IF computer_board.ships = <<>>
           THEN /\ out' = Append(head, Ev("win", 0))
                /\ pc' = "final_scores"
           ELSE IF player_board.ships = <<>>
           THEN /\ out' = Append(head, Ev("lose", 0))
                /\ pc' = "final_scores"
           ELSE /\ out' = head
                /\ pc' = "continue"
    /\ UNCHANGED <<player_board, computer_board, scores, round_num,
                   turnVars, apiVars>>

\* the continue-or-quit prompt (run.py:196-200)
ContinueOrQuit ==
    /\ pc = "continue"
    /\ \E choice \in {"n", "y"} :
        IF choice = "n"
        THEN /\ out' = <<Ev("quit", 0)>>
             /\ pc' = "done"
        ELSE /\ out' = <<>>
             /\ pc' = "play_game"
    /\ UNCHANGED <<player_board, computer_board, scores, round_num,
                   turnVars, apiVars>>

\* after the loop (run.py:202-205)
FinalScores ==
    /\ pc = "final_scores"
    /\ out' = <<Ev("final_scores", scores)>>
    /\ pc' = "done"
    /\ UNCHANGED <<player_board, computer_board, scores, round_num,
                   turnVars, apiVars>>

Next ==
    \/ NewGame
    \/ PlacePlayerShip
    \/ PlaceComputerShip
    \/ StartRound
    \/ PlayerTurn
    \/ ComputerTurn
    \/ RoundEnd
    \/ ContinueOrQuit
    \/ FinalScores

Spec == Init /\ [][Next]_vars

\* new_game up to the call of play_game: the two placements, the sampling
\* loop of populate_board being fair (a draw that places a ship is not
\* postponed forever)
NextPlacement ==
    \/ NewGame
    \/ PlacePlayerShip
    \/ PlaceComputerShip

SpecPlacement ==
    Init /\ [][NextPlacement]_vars /\ WF_vars(PlaceComputerShip)

\* the whole program with its steps scheduled: a statement that can run does
\* run, the sampling loop of get_computer_guess (run.py:123-126) draws an
\* unguessed cell sooner or later, and the player's retry loop
\* (run.py:149-157) is left sooner or later by a guess that is not a Repeat
SpecFair ==
    /\ Init /\ [][Next]_vars
    /\ WF_vars(StartRound)
    /\ WF_vars(PlayerTurn /\ pc' = "computer_turn")
    /\ WF_vars(ComputerTurn /\ pc' = "round_end")
    /\ WF_vars(RoundEnd)
    /\ WF_vars(ContinueOrQuit)
    /\ WF_vars(FinalScores)

InPlay == pc \in {"play_game", "player_turn", "computer_turn", "round_end",
                  "continue", "final_scores", "done"}

----------------------------------------------------------------------------
(* SpecBoard: one Board object and arbitrary calls of its methods *)

Target == IF target = "player" THEN player_board ELSE computer_board

SetTarget(b) ==
    IF target = "player"
    THEN player_board' = b /\ computer_board' = computer_board
    ELSE computer_board' = b /\ player_board' = player_board

\* the arguments tried: every cell, one negative index, one index too large
ApiPoints(b) ==
    (random_point(b.board_size) \X random_point(b.board_size))
        \cup {<<-1, 0>>, <<0, b.board_size>>}

InitBoard ==
    /\ \E num_ships \in 1..MaxShips :
        /\ player_board = Board(BoardSize, num_ships, "player")
        /\ computer_board = Board(BoardSize, num_ships, "computer")
    /\ target \in {"player", "computer"}
    /\ scores = [computer |-> 0, player |-> 0]
    /\ pc = "api"
    /\ round_num = 0
    /\ player_x = -1 /\ player_y = -1 /\ player_result = "none"
    /\ computer_x = -1 /\ computer_y = -1 /\ computer_result = "none"
    /\ out = <<>>
    /\ call = [op |-> "none", x |-> -1, y |-> -1, res |-> "none"]
    /\ nCalls = 0

ApiAddShip ==
    /\ pc = "api"
    /\ nCalls < MaxCalls
    /\ \E p \in ApiPoints(Target) :
        LET r == add_ship(Target, p[1], p[2])
        IN  /\ SetTarget(r.b)
            /\ call' = [op |-> "add_ship", x |-> p[1], y |-> p[2],
                        res |-> r.err]
    /\ nCalls' = nCalls + 1
    /\ out' = <<>>
    /\ UNCHANGED <<scores, pc, round_num, turnVars, target>>

ApiProcessGuess ==
    /\ pc = "api"
    /\ nCalls < MaxCalls
    /\ \E p \in ApiPoints(Target) :
        LET r == process_guess(Target, p[1], p[2])
        IN  /\ SetTarget(r.b)
            /\ call' = [op |-> "process_guess", x |-> p[1], y |-> p[2],
                        res |-> r.result]
            /\ out' = IF r.result = "Repeat"
                      THEN <<Ev("repeat", 0)>> ELSE <<>>
    /\ nCalls' = nCalls + 1
    /\ UNCHANGED <<scores, pc, round_num, turnVars, target>>

ApiDisplay ==
    /\ pc = "api"
    /\ \E hide_ships \in BOOLEAN :
        /\ out' = <<Ev("display", display(Target, hide_ships))>>
        /\ call' = [op |-> "display", x |-> -1, y |-> -1,
                    res |-> IF hide_ships THEN "hide" ELSE "show"]
    /\ UNCHANGED <<player_board, computer_board, scores, pc, round_num,
                   turnVars, target, nCalls>>

NextBoard ==
    \/ ApiAddShip
    \/ ApiProcessGuess
    \/ ApiDisplay

SpecBoard == InitBoard /\ [][NextBoard]_vars

TypeOK ==
    /\ pc \in {"new_game", "populate_board_player", "populate_board",
               "play_game", "player_turn", "computer_turn", "round_end",
               "continue", "final_scores", "done", "crashed", "api"}
    /\ scores.player \in Nat /\ scores.computer \in Nat

----------------------------------------------------------------------------
(* The claims *)

CapacityExceeded == "Cannot add more ships!"

DuplicateShip == "Ship already placed at this location!"

BoardsUnchanged ==
    /\ player_board' = player_board
    /\ computer_board' = computer_board

\* this step is a call of the Board method op in SpecBoard
IsCall(op) == pc = "api" /\ nCalls' = nCalls + 1 /\ call'.op = op

\* C1 (as stated): in no state of play_game do both boards have zero
\* remaining ships at the same time.
C1_NeverBothExhausted ==
    InPlay => ~(player_board.ships = <<>> /\ computer_board.ships = <<>>)

\* C2 (as stated): every run of play_game that has ended has emitted the
\* final score tally, whether it ended by exhaustion or by quitting.
C2_FinalTallyAlwaysEmitted ==
    pc = "done" => Printed("final_scores")

\* C3 (as stated): add_ship at a coordinate already in ships fails with
\* DuplicateShip and leaves ships and the grid unchanged, also when the board
\* is at capacity.
C3_DuplicateAlwaysDuplicateShip ==
    [][(IsCall("add_ship") /\ <<call'.x, call'.y>> \in Range(Target.ships))
        => (call'.res = DuplicateShip /\ BoardsUnchanged)]_vars

\* C3 (amended): add_ship at a coordinate already in ships always fails and
\* leaves ships and the grid unchanged; the error is DuplicateShip when the
\* board is below capacity and CapacityExceeded when it is at capacity.
C3_DuplicateRejected ==
    [][(IsCall("add_ship") /\ <<call'.x, call'.y>> \in Range(Target.ships))
        => /\ BoardsUnchanged
           /\ call'.res = IF Len(Target.ships) < Target.num_ships
                          THEN DuplicateShip ELSE CapacityExceeded]_vars

C3_Witness ==
    /\ pc = "api"
    /\ call.op = "add_ship"
    /\ call.res = DuplicateShip
    /\ <<call.x, call.y>> \in Range(Target.ships)
    /\ Len(Target.ships) < Target.num_ships

\* C4: once the board holds num_ships ships (which it does once num_ships
\* add_ship calls have succeeded), any further add_ship call, at any
\* coordinate, fails with CapacityExceeded and leaves ships and the grid
\* unchanged.
C4_CapacityExceeded ==
    [][(IsCall("add_ship") /\ Len(Target.ships) >= Target.num_ships)
        => (call'.res = CapacityExceeded /\ BoardsUnchanged)]_vars

C4_Witness ==
    /\ pc = "api"
    /\ call.op = "add_ship"
    /\ call.res = CapacityExceeded
    /\ Len(Target.ships) = Target.num_ships
    /\ <<call.x, call.y>> \notin Range(Target.ships)

\* C5: process_guess at an in-bounds coordinate not yet guessed returns Hit
\* or Miss and adds exactly one entry to guesses; a process_guess call at the
\* same coordinate directly after it returns Repeat and changes nothing.
C5_GuessTwice ==
    [][IsCall("process_guess") =>
        /\ (/\ InBounds(call'.x, call'.y, Target)
            /\ <<call'.x, call'.y>> \notin Range(Target.guesses))
           => /\ call'.res \in {"Hit", "Miss"}
              /\ call'.res = "Hit" <=> <<call'.x, call'.y>> \in Range(Target.ships)
              /\ Target'.guesses = Append(Target.guesses, <<call'.x, call'.y>>)
        /\ (/\ call.op = "process_guess"
            /\ call.res \in {"Hit", "Miss"}
            /\ call'.x = call.x /\ call'.y = call.y)
           => /\ call'.res = "Repeat"
              /\ BoardsUnchanged]_vars

C5_Witness ==
    /\ pc = "api"
    /\ nCalls = 3
    /\ call.op = "process_guess"
    /\ call.res = "Repeat"
    /\ InBounds(call.x, call.y, Target)
    /\ Target.ships = <<<<call.x, call.y>>>>
    /\ Target.guesses = <<<<call.x, call.y>>>>

\* C6: during play the remaining-ship count of a board goes down by exactly
\* one on a turn against it whose result is Hit, is unchanged by a turn whose
\* result is Miss or Repeat, and never goes up.
C6_RemainingShips ==
    [][InPlay =>
        LET pl  == Len(player_board.ships)
            pl2 == Len(player_board'.ships)
            co  == Len(computer_board.ships)
            co2 == Len(computer_board'.ships)
        IN  /\ pl2 <= pl /\ co2 <= co
            /\ (pc = "player_turn" /\ pc' = "computer_turn")
               => /\ pl2 = pl
                  /\ player_result' \in {"Hit", "Miss"}
                  /\ co2 = IF player_result' = "Hit" THEN co - 1 ELSE co
            /\ (pc = "player_turn" /\ pc' = "player_turn")
               => (pl2 = pl /\ co2 = co)
            /\ (pc = "computer_turn" /\ pc' = "round_end")
               => /\ co2 = co
                  /\ pl2 = IF computer_result' = "Hit" THEN pl - 1 ELSE pl
            /\ pc \notin {"player_turn", "computer_turn"}
               => (pl2 = pl /\ co2 = co)]_vars

C6_Witness ==
    /\ pc = "round_end"
    /\ player_result = "Hit" /\ computer_result = "Hit"
    /\ computer_board.num_ships = 2
    /\ Len(computer_board.ships) = 1
    /\ Len(player_board.ships) = 1
    /\ round_num = 1

\* C7: display(hide_ships=True) shows '.' for every cell holding '@' and every
\* other cell as it is; display(hide_ships=False) shows every cell as it is.
C7_Display ==
    (pc = "api" /\ call.op = "display") =>
        \A x, y \in 0..(Target.board_size - 1) :
            LET cell  == Target.board[x][y]
                shown == out[1].arg[x][y]
            IN  /\ call.res = "hide" => /\ cell = "@" => shown = "."
                                        /\ cell # "@" => shown = cell
                /\ call.res = "show" => shown = cell

C7_Witness ==
    /\ pc = "api"
    /\ call.op = "display"
    /\ call.res = "hide"
    /\ \E x, y \in 0..(Target.board_size - 1) :
        Target.board[x][y] = "@" /\ out[1].arg[x][y] = "."
    /\ \E x, y \in 0..(Target.board_size - 1) : Target.board[x][y] = "X"
    /\ \E x, y \in 0..(Target.board_size - 1) : Target.board[x][y] = "O"

\* C8: a player guess whose result is Repeat leaves the engine in the
\* player-guess step with both boards, both scores, the round number and the
\* computer's guess unchanged; the engine reaches the computer's turn only
\* from the player-guess step, by a guess whose result is Hit or Miss.
C8_RepeatKeepsTurn ==
    [][/\ (pc = "player_turn" /\ player_result' = "Repeat")
          => /\ pc' = "player_turn"
             /\ BoardsUnchanged
             /\ scores' = scores
             /\ round_num' = round_num
             /\ <<computer_x, computer_y, computer_result>>'
                    = <<computer_x, computer_y, computer_result>>
       /\ (pc' = "computer_turn" /\ pc # "computer_turn")
          => /\ pc = "player_turn"
             /\ player_result' \in {"Hit", "Miss"}
             /\ <<player_x', player_y'>> \notin Range(computer_board.guesses)
             /\ computer_board'.guesses
                    = Append(computer_board.guesses, <<player_x', player_y'>>)]_vars

C8_Witness ==
    /\ pc = "player_turn"
    /\ player_result = "Repeat"
    /\ Printed("try_again")
    /\ <<player_x, player_y>> \in Range(computer_board.guesses)

\* C9: the coordinate get_computer_guess returns is in-bounds and not in the
\* player board's guesses, and the computer's turn never yields Repeat.
C9_ComputerNeverRepeats ==
    [][(pc = "computer_turn" /\ pc' # "computer_turn")
        => /\ InBounds(computer_x', computer_y', player_board)
           /\ <<computer_x', computer_y'>> \notin Range(player_board.guesses)
           /\ computer_result' \in {"Hit", "Miss"}
           /\ pc' = "round_end"]_vars

C9_Witness ==
    /\ pc = "round_end"
    /\ round_num = 3
    /\ computer_result \in {"Hit", "Miss"}
    /\ Len(player_board.guesses) = 3

\* C10: when the computer's guess is about to be generated the player's guess
\* of the round is resolved (classified, in the computer board's guesses, its
\* ship removed and the player's score updated on Hit) and the computer has
\* not yet guessed in the round; the player's turn changes only the
\* computer's board and the player's score, the computer's turn only the
\* player's board and the computer's score.
C10_PlayerResolved ==
    pc = "computer_turn" =>
        /\ player_result \in {"Hit", "Miss"}
        /\ Len(computer_board.guesses) = round_num
        /\ computer_board.guesses[round_num] = <<player_x, player_y>>
        /\ <<player_x, player_y>> \notin Range(computer_board.ships)
        /\ computer_board.board[player_x][player_y]
               = IF player_result = "Hit" THEN "X" ELSE "O"
        /\ scores.player
               = computer_board.num_ships - Len(computer_board.ships)
        /\ Len(player_board.guesses) = round_num - 1

C10_TurnFrame ==
    /\ pc = "player_turn"
       => /\ player_board' = player_board
          /\ scores'.computer = scores.computer
          /\ <<computer_x, computer_y, computer_result>>'
                 = <<computer_x, computer_y, computer_result>>
    /\ pc = "computer_turn"
       => /\ computer_board' = computer_board
          /\ scores'.player = scores.player
          /\ <<player_x, player_y, player_result>>'
                 = <<player_x, player_y, player_result>>

C10_TurnOrder == [](C10_PlayerResolved) /\ [][C10_TurnFrame]_vars

C10_Witness ==
    /\ pc = "computer_turn"
    /\ round_num = 2
    /\ player_result = "Hit"
    /\ scores.player = 1
    /\ scores.computer = 1

\* what the step just taken printed
PrintedNext(e) == \E i \in 1..Len(out') : out'[i].ev = e

\* C11: at the end of a round in which either board has no ship left the game
\* ends without the continue/quit prompt and exactly one outcome is printed,
\* a win only if the computer's board is exhausted and a loss only if the
\* player's is; when both boards still hold ships no outcome is printed and
\* the prompt follows.
C11_SingleOutcome ==
    [][pc = "round_end" =>
        IF computer_board.ships = <<>> \/ player_board.ships = <<>>
        THEN /\ pc' = "final_scores"
             /\ PrintedNext("win") # PrintedNext("lose")
             /\ PrintedNext("win") => computer_board.ships = <<>>
             /\ PrintedNext("lose") => player_board.ships = <<>>
        ELSE /\ pc' = "continue"
             /\ ~PrintedNext("win") /\ ~PrintedNext("lose")]_vars

C11_Witness ==
    /\ pc = "final_scores"
    /\ Printed("win") /\ ~Printed("lose")
    /\ computer_board.ships = <<>>
    /\ player_board.ships = <<>>

RoundBoundary == pc \in {"play_game", "round_end", "continue",
                         "final_scores", "done"}

\* C12: both scores are zero when a new game starts; a score goes up by
\* exactly one on a Hit of its side and is changed by nothing else; at every
\* round boundary each side's score is num_ships minus the number of ships
\* left on the opposing board.
C12_ScoreAtBoundary ==
    /\ pc \in {"populate_board_player", "populate_board"}
       => scores = [computer |-> 0, player |-> 0]
    /\ RoundBoundary
       => /\ scores.player
                = computer_board.num_ships - Len(computer_board.ships)
          /\ scores.computer
                = player_board.num_ships - Len(player_board.ships)

C12_ScoreStep ==
    LET playerHit   == /\ pc = "player_turn" /\ pc' = "computer_turn"
                       /\ player_result' = "Hit"
        computerHit == /\ pc = "computer_turn" /\ pc' = "round_end"
                       /\ computer_result' = "Hit"
    IN  /\ pc = "new_game" => scores' = [computer |-> 0, player |-> 0]
        /\ pc # "new_game"
           => /\ scores'.player
                    = IF playerHit THEN scores.player + 1 ELSE scores.player
              /\ scores'.computer
                    = IF computerHit THEN scores.computer + 1
                      ELSE scores.computer

C12_Scores == [](C12_ScoreAtBoundary) /\ [][C12_ScoreStep]_vars

C12_Witness ==
    /\ pc = "continue"
    /\ round_num = 2
    /\ scores = [computer |-> 1, player |-> 1]
    /\ Len(computer_board.ships) = 1
    /\ Len(player_board.ships) = 1

NoDup(s) == \A i, j \in 1..Len(s) : i # j => s[i] # s[j]

ShipsWellFormed(b) ==
    /\ NoDup(b.ships)
    /\ \A i \in 1..Len(b.ships) : InBounds(b.ships[i][1], b.ships[i][2], b)
    /\ Len(b.ships) <= b.num_ships

\* C13: in every state of new_game (manual placement, random placement,
\* play) each board's ships list has no duplicate coordinate, only in-bounds
\* coordinates and at most num_ships entries.
C13_ShipsWellFormed ==
    ShipsWellFormed(player_board) /\ ShipsWellFormed(computer_board)

C13_Witness ==
    /\ pc = "play_game"
    /\ round_num = 0
    /\ Len(player_board.ships) = 2
    /\ Len(computer_board.ships) = 2
    /\ player_board.num_ships = 2

IsPrefix(s, t) == Len(s) <= Len(t) /\ \A i \in 1..Len(s) : s[i] = t[i]

\* C14: a board's guesses list never holds a coordinate twice, and within a
\* game it only grows: every step keeps the list as a prefix of the new one.
C14_NoDupGuesses ==
    NoDup(player_board.guesses) /\ NoDup(computer_board.guesses)

C14_GuessesGrow ==
    pc # "new_game"
        => /\ IsPrefix(player_board.guesses, player_board'.guesses)
           /\ IsPrefix(computer_board.guesses, computer_board'.guesses)

C14_GuessHistory == [](C14_NoDupGuesses) /\ [][C14_GuessesGrow]_vars

C14_Witness ==
    /\ pc = "player_turn"
    /\ round_num = 3
    /\ player_result = "Repeat"
    /\ Len(computer_board.guesses) = 2
    /\ Len(player_board.guesses) = 2

\* C15: populate_board, started on the empty computer board, terminates when
\* its sampling is fair, raises no add_ship error, and leaves exactly
\* num_ships distinct in-bounds ships on the board.
C15_PopulateResult ==
    /\ pc # "crashed"
    /\ pc = "populate_board_player" => computer_board.ships = <<>>
    /\ pc = "play_game"
       => /\ Len(computer_board.ships) = computer_board.num_ships
          /\ ShipsWellFormed(computer_board)

C15_PopulateTerminates ==
    /\ (pc = "populate_board") ~> (pc = "play_game")
    /\ [](C15_PopulateResult)

C15_Witness ==
    /\ pc = "play_game"
    /\ computer_board.num_ships = 2
    /\ Len(computer_board.ships) = 2
    /\ computer_board.ships[1] # computer_board.ships[2]

\* C16: in manual placement a supplied coordinate is accepted exactly when it
\* is in-bounds and not already in ships; an accepted one is appended to
\* ships and marked '@'; a rejected one leaves the board (ships and cells)
\* unchanged and the ship counter where it was.
C16_ManualPlacement ==
    [][pc = "populate_board_player" =>
        LET e     == out'[1]
            c     == e.arg
            valid == /\ InBounds(c[1], c[2], player_board)
                     /\ c \notin Range(player_board.ships)
        IN  /\ e.ev \in {"ship_placed", "invalid_coordinates"}
            /\ e.ev = "ship_placed" <=> valid
            /\ valid
               => /\ player_board'.ships = Append(player_board.ships, c)
                  /\ player_board'.board[c[1]][c[2]] = "@"
            /\ ~valid
               => /\ player_board' = player_board
                  /\ pc' = "populate_board_player"]_vars

C16_Witness ==
    /\ pc = "populate_board_player"
    /\ Printed("invalid_coordinates")
    /\ out[1].arg \in Range(player_board.ships)
    /\ Len(player_board.ships) = 1
    /\ player_board.board[out[1].arg[1]][out[1].arg[2]] = "@"

\* C17: the computer's grid never holds the ship marker, and what
\* display(hide_ships=True) shows of it is fixed by the guesses made and their
\* outcomes alone: an unguessed cell shows '.', wherever the live ships are,
\* and a guessed cell shows 'X' if the guess was a Hit and 'O' if it was a
\* Miss, from the guess on.  The same holds of the hidden view printed at the
\* start of a round.
C17_HiddenView ==
    \A x, y \in 0..(computer_board.board_size - 1) :
        LET shown == display(computer_board, TRUE)[x][y]
        IN  /\ computer_board.board[x][y] # "@"
            /\ IF <<x, y>> \in Range(computer_board.guesses)
               THEN shown \in {"X", "O"}
               ELSE shown = "."
            /\ (pc = "player_turn" /\ Printed("display_hidden"))
               => out[3].arg[x][y] = shown

C17_HiddenViewStep ==
    InPlay =>
        /\ \A p \in Range(computer_board.guesses) :
            display(computer_board', TRUE)[p[1]][p[2]]
                = display(computer_board, TRUE)[p[1]][p[2]]
        /\ (pc = "player_turn" /\ pc' = "computer_turn")
           => display(computer_board', TRUE)[player_x'][player_y']
                  = IF player_result' = "Hit" THEN "X" ELSE "O"

C17_HiddenViewOnlyHistory ==
    [](C17_HiddenView) /\ [][C17_HiddenViewStep]_vars

C17_Witness ==
    /\ pc = "player_turn"
    /\ Printed("display_hidden")
    /\ round_num = 2
    /\ Len(computer_board.ships) = 2
    /\ Len(computer_board.guesses) = 1
    /\ \A i \in 1..2 :
        out[3].arg[computer_board.ships[i][1]][computer_board.ships[i][2]] = "."

Cells(b) == (0..(b.board_size - 1)) \X (0..(b.board_size - 1))

Unguessed(b) == Cells(b) \ Range(b.guesses)

\* C18: whenever a guess is requested during play the target board has an
\* unguessed cell: the computer's board when the player is asked, where an
\* accepted input that is not a Repeat exists, and the player's board when
\* get_computer_guess draws, so its loop has a draw to accept.  At every turn
\* boundary no live ship of a board is in that board's guesses.
C18_UnguessedCellExists ==
    /\ pc = "player_turn" =>
        /\ Unguessed(computer_board) # {}
        /\ \E x, y \in InputPoint(computer_board.board_size) :
            /\ PlayerGuessAccepted(x, y, computer_board)
            /\ PlayerLoopExits(process_guess(computer_board, x, y).result)
    /\ pc = "computer_turn" =>
        /\ Unguessed(player_board) # {}
        /\ get_computer_guess(player_board) # {}
    /\ InPlay =>
        /\ Range(player_board.ships) \cap Range(player_board.guesses) = {}
        /\ Range(computer_board.ships) \cap Range(computer_board.guesses) = {}

\* the computer is asked for its guess with one cell of the player's board
\* left unguessed and a ship still on it
C18_Witness ==
    /\ pc = "computer_turn"
    /\ Cardinality(Unguessed(player_board)) = 1
    /\ player_board.ships # <<>>
    /\ Len(computer_board.guesses) = BoardSize * BoardSize

Exhausted == player_board.ships = <<>> \/ computer_board.ships = <<>>

\* C19: at the end of every completed round each board's guesses has exactly
\* round_num entries; the game never runs more than board_size * board_size
\* rounds; play_game ends either by the player's quitting or with a board
\* exhausted; and once play_game is entered, unless the player quits, it
\* ends with a board exhausted (the player leaving the retry loop in time).
C19_RoundCount ==
    /\ RoundBoundary =>
        /\ Len(player_board.guesses) = round_num
        /\ Len(computer_board.guesses) = round_num
    /\ InPlay =>
        round_num <= player_board.board_size * player_board.board_size
    /\ pc = "done" => Printed("quit") \/ Exhausted

C19_EndsByExhaustion ==
    (pc = "play_game" /\ round_num = 0)
        ~> (Printed("quit") \/ (pc = "done" /\ Exhausted))

C19_RoundsBounded == [](C19_RoundCount) /\ C19_EndsByExhaustion

\* a game that ran board_size * board_size rounds and ended without a quit
C19_Witness ==
    /\ pc = "done"
    /\ ~Printed("quit")
    /\ round_num = BoardSize * BoardSize
    /\ Len(player_board.guesses) = BoardSize * BoardSize
    /\ Exhausted

Marked(b, v) == {p \in Cells(b) : b.board[p[1]][p[2]] = v}

\* the grid of one board against its guesses and live ships
GridAgrees(b) ==
    /\ Marked(b, "X") \cup Marked(b, "O") = Range(b.guesses)
    /\ Cardinality(Marked(b, "X")) = b.num_ships - Len(b.ships)
    /\ Marked(b, "X") \cap Range(b.ships) = {}
    /\ Marked(b, "@") = IF b.type = "player" THEN Range(b.ships) ELSE {}
    /\ \A p \in Unguessed(b) : b.board[p[1]][p[2]] \in {".", "@"}

\* one step on one board: a new guess marks its cell 'X' if a ship was there
\* and 'O' if not, and a cell that is 'X' or 'O' keeps its mark
GridStep(b, c) ==
    /\ \A p \in Cells(b) :
        b.board[p[1]][p[2]] \in {"X", "O"}
            => c.board[p[1]][p[2]] = b.board[p[1]][p[2]]
    /\ \A p \in Range(c.guesses) \ Range(b.guesses) :
        c.board[p[1]][p[2]] = IF p \in Range(b.ships) THEN "X" ELSE "O"

\* C20: at every round boundary each board's grid agrees with its history:
\* the cells marked 'X' or 'O' are the guessed ones, 'X' where the guess found
\* a ship and 'O' where it found none, and the other cells are '.' or, on the
\* player's board only, '@' exactly at the live ships; a cell that is 'X' or
\* 'O' never changes again.
C20_GridAtBoundary ==
    RoundBoundary => GridAgrees(player_board) /\ GridAgrees(computer_board)

C20_GridStep ==
    InPlay => /\ GridStep(player_board, player_board')
              /\ GridStep(computer_board, computer_board')

C20_GridAgreesWithHistory == [](C20_GridAtBoundary) /\ [][C20_GridStep]_vars

\* a round boundary where the player's board shows a hit, a miss and a live
\* ship at once, and the computer's board a hit and a miss
C20_Witness ==
    /\ pc = "continue"
    /\ Marked(player_board, "X") # {}
    /\ Marked(player_board, "O") # {}
    /\ Marked(player_board, "@") # {}
    /\ Marked(computer_board, "X") # {}
    /\ Marked(computer_board, "O") # {}

====
